---- MODULE Spec2Model ----
(***************************************************************************)
(* A model of the AIA timeline scraper (scraper.py, config.py).            *)
(*                                                                         *)
(* Timestamps are minutes since the start of year 0 of the model; a       *)
(* calendar date is a day number, a time of day a number of minutes.      *)
(* Values that are not timestamps (NaT, None, the "Unknown" filler, a raw  *)
(* unparsed string, a raised exception) are records with a kind field k.   *)
(* Text (comments, sources, table cells) is modelled by strings, with      *)
(* Python's "x in y" as the substring test IsIn.                           *)
(***************************************************************************)
EXTENDS Integers, Sequences, FiniteSets, TLC

VARIABLES pc, today, queue, final_timeline, updated_timeline, args, ret, error

vars == <<pc, today, queue, final_timeline, updated_timeline, args, ret, error>>

(***************************** bounds **************************************)
\* Calendar days the inputs are drawn from are 0..MaxDay of each year.
MaxDay == 1
\* Year hints are 0..MaxYear.
MaxYear == 1
\* Rows of a text-file frame handed to _process_end_time.
MaxFrame == 2
\* Rows of one hypertext table and of one text file.
MaxRows == 1
\* Rows of a frame handed to drop_duplicates, with all fields varied.
MaxLen == 3
\* Rows of a frame handed to drop_duplicates, with the starts varied.
MaxChain == 4

(***************************** time ****************************************)
MinutesPerDay == 24 * 60
DaysPerYear == 73 * 5

Date(t) == t \div MinutesPerDay
TimeOfDay(t) == t % MinutesPerDay
At(day, tod) == day * MinutesPerDay + tod
YearOf(day) == day \div DaysPerYear
DayOfYear(year, md) == year * DaysPerYear + md

\* Values of a timestamp cell.
Ts(t) == [k |-> "ts", t |-> t]
NaT == [k |-> "NaT", t |-> 0]
None == [k |-> "None", t |-> 0]
Unknown == [k |-> "Unknown", t |-> 0]
Raw(t) == [k |-> "raw", t |-> t]
Raised(e) == [k |-> e, t |-> 0]
IsError(v) == v.k \in {"AttributeError", "ValueError", "IndexError", "KeyError"}

\* A row of the timeline frame: Start Time, End Time, Instrument, Source, Comment.
Event(start, end, instrument, source, comment) ==
    [start |-> start, end |-> end, instrument |-> instrument, source |-> source,
     comment |-> comment]

\* The times of day the inputs use: 00:00, 00:10, 10:00, 11:00, 18:15, 23:50.
TimesOfDay == {0, 10, 600, 660, 1095, 1430}
Days == 0..MaxDay
Years == 0..MaxYear

\* frame.iloc[-1], columns[-1]
Last(seq) == seq[Len(seq)]
\* The rows of a frame, as a tuple
Rows(f) == SubSeq(f, 1, Len(f))

(***************************** text ****************************************)
\* Python's  s in t  on strings.
IsIn(s, t) == \E i \in 0..(Len(t) - Len(s)) : SubSeq(t, i + 1, i + Len(s)) = s

RECURSIVE LStrip(_)
LStrip(s) == IF Len(s) > 0 /\ SubSeq(s, 1, 1) = " " THEN LStrip(SubSeq(s, 2, Len(s))) ELSE s
RECURSIVE RStrip(_)
RStrip(s) ==
    IF Len(s) > 0 /\ SubSeq(s, Len(s), Len(s)) = " " THEN RStrip(SubSeq(s, 1, Len(s) - 1)) ELSE s
\* str.strip()
Strip(s) == RStrip(LStrip(s))

(***************************** _format_date ********************************)
(* A cleaned date token is described by what _format_date reads of it: its *)
(* length, whether it holds a "/", and the date and time it spells.        *)
(*   time    "18:15"                  a time of day                        *)
(*   md      "11/2"                   month/day                            *)
(*   mdtime  "12/10 18:15"            month/day and a time, no year        *)
(*   range   "2010.05.01 - 02"        a full date and a trailing range     *)
(*   multi   "8/28 20:35 8/14 20:50"  several month/day time pairs         *)
(*   full    "2010.05.01 10:00"       a full date and time                 *)
(*   NaT     "NaT"                    the filler process_html passes       *)
(*   dotted  "4/4 05.50"              a time written with a "."            *)
(* md is the day of the year; yr the year a full date spells; first the    *)
(* length of the first pair of a multi token.                              *)
Token(kind, len, slash, yr, md, tod, first) ==
    [kind |-> kind, len |-> len, slash |-> slash, yr |-> yr, md |-> md, tod |-> tod,
     first |-> first]

TimeTokens == {Token("time", l, FALSE, 0, 0, tod, 0) : l \in {4, 5}, tod \in {10, 1095}}
MdTokens == {Token("md", 4, TRUE, 0, md, 0, 0) : md \in Days}
MdTimeTokens == {Token("mdtime", 11, TRUE, 0, md, tod, 0) : md \in Days, tod \in {600, 1430}}
FullTokens == {Token("full", 16, FALSE, y, md, 600, 0) : y \in Years, md \in Days}
RangeTokens == {Token("range", 15, FALSE, y, md, 0, 0) : y \in Years, md \in Days}
MultiTokens == {Token("multi", 21, TRUE, 0, md, 1235, 10) : md \in Days}
NaTToken == Token("NaT", 3, FALSE, 0, 0, 0, 0)
DateTokens == TimeTokens \cup MdTokens \cup MdTimeTokens \cup RangeTokens \cup MultiTokens
                 \cup FullTokens \cup {NaTToken}

\* pd.Timestamp(date) of the text as it stands: the parser fills the fields the
\* text does not spell from the current date (the wall clock, variable today).
Timestamp(date, now) ==
    CASE date.kind = "time" -> Ts(At(now, date.tod))
      [] date.kind = "md" -> Ts(At(DayOfYear(YearOf(now), date.md), 0))
      [] date.kind = "mdtime" -> Ts(At(DayOfYear(YearOf(now), date.md), date.tod))
      [] date.kind = "full" -> Ts(At(DayOfYear(date.yr, date.md), date.tod))
      [] date.kind = "NaT" -> NaT
      [] OTHER -> Raised("ValueError")

_format_date(date, year, _hack, now) ==
    IF year = None THEN Timestamp(date, now)
    ELSE IF date.len \in {4, 5} THEN
        IF ~date.slash THEN
            \* pd.Timestamp(str(_hack.date()) + " " + date)
            IF _hack = None THEN Raised("AttributeError")
            ELSE IF date.kind = "time" THEN Ts(At(Date(_hack.t), date.tod))
            ELSE Raised("ValueError")
        ELSE
            \* pd.Timestamp(f"{year}-{date}")
            IF date.kind = "md" THEN Ts(At(DayOfYear(year.t, date.md), 0))
            ELSE Raised("ValueError")
    ELSE IF date.len \in {9, 10, 11, 12} THEN
        \* date.split(" "): the month/day, then the time
        IF date.kind = "mdtime" THEN Ts(At(DayOfYear(year.t, date.md), date.tod))
        ELSE Raised("ValueError")
    ELSE
        \* pd.Timestamp(date.split("-")[0]), and on ValueError the year and
        \* the prefix of length len // (len // 10)
        CASE date.kind = "range" -> Ts(At(DayOfYear(date.yr, date.md), 0))
          [] date.kind = "multi" ->
                LET idx == date.len \div (date.len \div 10)
                IN  IF idx = date.first THEN Ts(At(DayOfYear(year.t, date.md), date.tod))
                    ELSE Raised("ValueError")
          [] OTHER -> Timestamp(date, now)

YearHints == {None} \cup {Ts(y) : y \in Years}
Anchors == {None} \cup {Ts(At(d, tod)) : d \in Days, tod \in {0, 600}}

InitFormatDate ==
    /\ pc = "_format_date"
    /\ today \in Days
    /\ queue = <<>>
    /\ args \in [date : DateTokens, year : YearHints, _hack : Anchors]
    /\ ret = None
    /\ final_timeline = <<>>
    /\ updated_timeline = <<>>
    /\ error = "none"

FormatDate ==
    /\ pc = "_format_date"
    /\ ret' = _format_date(args.date, args.year, args._hack, today)
    /\ pc' = "done"
    /\ UNCHANGED <<today, queue, final_timeline, updated_timeline, args, error>>

SpecFormatDate == InitFormatDate /\ [][FormatDate]_vars

(***************************** _process_end_time ***************************)
\* One row of the frame: column 0 is the parsed start, column 1 the bare
\* end time of day as text.
EndTimeRows == [start : {At(d, tod) : d \in Days, tod \in TimesOfDay}, end : TimesOfDay]

\* pd.to_datetime(start.strftime("%m/%d/%Y") + " " + end)
WithStartDate(row) == At(Date(row.start), row.end)

\* pd.Timedelta(days=1) if x < y else pd.Timedelta(days=0), x the start
\* (column 0) and y the end just built (column 1)
Increment(x, y) == IF x < y THEN MinutesPerDay ELSE 0

_process_end_time(data) ==
    [i \in DOMAIN data |->
        LET y == WithStartDate(data[i])
        IN  [start |-> data[i].start, end |-> y + Increment(data[i].start, y)]]

InitEndTime ==
    /\ pc = "_process_end_time"
    /\ today = 0
    /\ queue = <<>>
    /\ \E n \in 1..MaxFrame : args \in [1..n -> EndTimeRows]
    /\ ret = <<>>
    /\ final_timeline = <<>>
    /\ updated_timeline = <<>>
    /\ error = "none"

ProcessEndTime ==
    /\ pc = "_process_end_time"
    /\ ret' = _process_end_time(args)
    /\ pc' = "done"
    /\ UNCHANGED <<today, queue, final_timeline, updated_timeline, args, error>>

SpecEndTime == InitEndTime /\ [][ProcessEndTime]_vars

(***************************** process_html *******************************)
\* str.find: the index of the first occurrence of sub in s, 0 when there is none.
IndexOf(sub, s) ==
    IF IsIn(sub, s)
    THEN CHOOSE i \in 1..Len(s) :
            /\ SubSeq(s, i, i + Len(sub) - 1) = sub
            /\ \A j \in 1..(i - 1) : SubSeq(s, j, j + Len(sub) - 1) # sub
    ELSE 0
\* s.split(sub)[0] and the rest of s after the first sub
Before(sub, s) == IF IsIn(sub, s) THEN SubSeq(s, 1, IndexOf(sub, s) - 1) ELSE s
After(sub, s) == SubSeq(s, IndexOf(sub, s) + Len(sub), Len(s))
\* s.split("/")[-1]
RECURSIVE LastSegment(_)
LastSegment(s) == IF IsIn("/", s) THEN LastSegment(After("/", s)) ELSE s
\* s.replace("\n", " ")
RECURSIVE ReplaceNewlines(_)
ReplaceNewlines(s) ==
    IF Len(s) = 0 THEN s
    ELSE (IF SubSeq(s, 1, 1) = "\n" THEN " " ELSE SubSeq(s, 1, 1))
            \o ReplaceNewlines(SubSeq(s, 2, Len(s)))

\* config.DATASETS: fURL.format(f"20{i:02}") for i in RANGE, range(10, CY_END)
YearText(y) == "20" \o ToString(10 + y)
JsocobsUrl(y) == "https://aia.lmsal.com/public/jsocobs_info" \o YearText(y) \o ".html"
\* fURL.format(f"20{i:02}{j:02}"), here the January page of each year
CovUrl(y) == "http://jsoc.stanford.edu/doc/data/hmi/cov2/cov" \o YearText(y) \o "01.html"

\* year = url.split("info")[1].split(".")[0], as the hint _format_date reads
YearOfUrl(url) ==
    IF IsIn("jsocobs_info", url)
    THEN LET text == Before(".", Before("info", After("info", url)))
         IN  Ts(CHOOSE y \in 0..89 : YearText(y) = text)
    ELSE None

\* A date cell as the page spells it: the token, followed or not by " UT", its
\* time written with ":" or with ".". A blank cell holds at most one character.
Cell(tok, ut, dot) == [tok |-> tok, ut |-> ut, dot |-> dot]
BlankCell(len) == Cell(Token("blank", len, FALSE, 0, 0, 0, 0), FALSE, FALSE)
\* len(text[i])
RawLen(cell) == cell.tok.len + (IF cell.ut THEN 3 ELSE 0)

\* _clean_date: whitespace is collapsed and the markers are cut out, "UT" leaving
\* the blank that stood before it; with extra_replace every "." becomes ":".
\* The tokens of the model hold no "-", so split("-")[0] keeps them whole.
_clean_date(cell, extra_replace) ==
    [cell.tok EXCEPT !.len = @ + (IF cell.ut THEN 1 ELSE 0),
                     !.kind = IF cell.dot /\ ~extra_replace THEN "dotted" ELSE @]

\* Python's  a or b or c  on strings
FirstNonEmpty(a, b, c) == IF a # "" THEN a ELSE IF b # "" THEN b ELSE c

\* The instrument of a row: which description cell holds text (line 316).
RowInstrument(row) ==
    IF Strip(row.generic) # "" THEN "SDO" ELSE IF Strip(row.aia) # "" THEN "AIA" ELSE "HMI"

\* The comment of a row (line 315).
RowComment(row) == FirstNonEmpty(Strip(row.generic), Strip(row.aia), Strip(row.hmi))

\* One row of a row-level table (lines 307-327): the event, or the exception a
\* date raises. row.start, row.end are text[0], text[1]; generic, aia, hmi are
\* text[2], text[4], text[7].
HtmlRow(row, url, year, now) ==
    LET extra_replace == IsIn("jsocobs_info", url)
        start_date == _format_date(_clean_date(row.start, extra_replace), year, None, now)
        end_text == IF RawLen(row.end) > 1 THEN _clean_date(row.end, extra_replace)
                    ELSE NaTToken
        end_date == _format_date(end_text, year, start_date, now)
    IN  IF IsError(start_date) THEN [error |-> start_date.k, event |-> None]
        ELSE IF IsError(end_date) THEN [error |-> end_date.k, event |-> None]
        ELSE [error |-> "none",
              event |-> Event(start_date.t, end_date, RowInstrument(row), LastSegment(url),
                              RowComment(row))]

RECURSIVE HtmlRows(_, _, _, _, _)
HtmlRows(data, rows, url, year, now) ==
    IF Len(rows) = 0 THEN [error |-> "none", data |-> data]
    ELSE LET r == HtmlRow(Head(rows), url, year, now)
         IN  IF r.error # "none" THEN [error |-> r.error, data |-> data]
             ELSE HtmlRows(Append(data, r.event), Tail(rows), url, year, now)

\* One event text of a column-oriented page (lines 296-297).
CovInstrument(text) ==
    IF IsIn("HMI", text) THEN "HMI" ELSE IF IsIn("AIA", text) THEN "AIA" ELSE "SDO"

\* The column-oriented branch (lines 292-304): page.dates is the block of start
\* times, page.text the event texts.
HtmlColumns(data, page, url, year, now) ==
    LET start_dates == [i \in DOMAIN page.dates |->
                            _format_date(_clean_date(page.dates[i], FALSE), year, None, now)]
    IN  IF \E i \in DOMAIN start_dates : IsError(start_dates[i])
        THEN [error |-> start_dates[CHOOSE i \in DOMAIN start_dates :
                                        /\ IsError(start_dates[i])
                                        /\ \A j \in 1..(i - 1) : ~IsError(start_dates[j])].k,
              data |-> data]
        \* pd.DataFrame of lists of different lengths
        ELSE IF Len(page.text) # Len(page.dates) THEN [error |-> "ValueError", data |-> data]
        ELSE [error |-> "none",
              data |-> data \o [i \in DOMAIN page.dates |->
                                   Event(start_dates[i].t, None, CovInstrument(page.text[i]),
                                         LastSegment(url), ReplaceNewlines(page.text[i]))]]

\* process_html(url, data), page what requests.get(url) returned: its status, the
\* number of tables and the last table (rows after the header row, or the
\* column blocks).
process_html(url, page, data, now) ==
    IF page.status = 404 THEN [error |-> "none", data |-> data]
    ELSE IF page.tables = 1 /\ IsIn("jsocobs_info", url) THEN [error |-> "none", data |-> data]
    ELSE IF page.tables = 0 THEN [error |-> "IndexError", data |-> data]
    ELSE IF IsIn("hmi/cov2/", url) THEN HtmlColumns(data, page, url, YearOfUrl(url), now)
    ELSE HtmlRows(data, page.rows, url, YearOfUrl(url), now)

Page(status, tables, rows, dates, text) ==
    [status |-> status, tables |-> tables, rows |-> rows, dates |-> dates, text |-> text]

\* The rows of a row-level page: the start "M/D 10:00" or "M/D 23:50", the end
\* blank or a bare time, each description cell blank or holding text.
StartCells == {Cell(t, ut, dot) : t \in MdTimeTokens, ut \in BOOLEAN, dot \in BOOLEAN}
EndCells == {BlankCell(1)} \cup {Cell(t, ut, dot) : t \in TimeTokens, ut \in BOOLEAN, dot \in BOOLEAN}
HtmlRowSet ==
    [start : StartCells, end : EndCells, generic : {" ", "roll"}, aia : {" ", "AIA flat"},
     hmi : {"", "HMI cal "}]
RowPages ==
    {Page(200, 1, <<>>, <<>>, <<>>), Page(404, 0, <<>>, <<>>, <<>>)}
        \cup {Page(200, 2, rows, <<>>, <<>>) :
                rows \in UNION {[1..n -> HtmlRowSet] : n \in 0..MaxRows}}

\* The blocks of a column-oriented page.
CovDates == {Cell(t, FALSE, FALSE) : t \in FullTokens}
CovTexts == {"HMI\nroll", "AIA flat", "eclipse"}
ColumnPages ==
    {Page(404, 0, <<>>, <<>>, <<>>), Page(200, 0, <<>>, <<>>, <<>>)}
        \cup {Page(200, 1, <<>>, dates, text) :
                dates \in UNION {[1..n -> CovDates] : n \in 1..MaxRows},
                text \in UNION {[1..n -> CovTexts] : n \in 1..MaxRows}}

InitHtml ==
    /\ pc = "process_html"
    /\ today \in Days
    /\ queue = <<>>
    /\ final_timeline = <<>>
    /\ updated_timeline = <<>>
    /\ args = <<>>
    /\ ret = <<>>
    /\ error = "none"

\* One call of process_html on an empty frame.
ProcessHtml(url, page) ==
    /\ pc = "process_html"
    /\ LET r == process_html(url, page, final_timeline, today)
       IN  /\ final_timeline' = r.data
           /\ error' = r.error
    /\ args' = [url |-> url, page |-> page]
    /\ pc' = "done"
    /\ UNCHANGED <<today, queue, updated_timeline, ret>>

NextHtml ==
    \/ \E y \in Years, page \in RowPages : ProcessHtml(JsocobsUrl(y), page)
    \/ \E y \in Years, page \in ColumnPages : ProcessHtml(CovUrl(y), page)

SpecHtml == InitHtml /\ [][NextHtml]_vars

(***************************** process_txt ********************************)
\* config.TIME_FORMATS
TIME_FORMATS ==
    <<"%d-%b-%y %H:%M:%S", "%Y.%m.%d", "%y-%j-%H:%M:%S", "%Y.%m.%d_%H:%M:%S",
      "%d-%b-%Y %H:%M:%S">>

\* config.MAP_4 (the first and the last entries; the codes are 0..19)
MAP_4 ==
    [code \in 0..19 |->
        CASE code = 0 -> "Roll Maneuvers"
          [] code = 9 -> "CCD Bakeout"
          [] code = 12 -> "Camera Anomaly"
          [] code = 19 -> "Misc Tests/Special Ops"
          [] OTHER -> "Maneuver " \o ToString(code)]

\* A text cell of a time column, as the file spells it:
\*   stamp  text that format TIME_FORMATS[fmt] (and no other) parses, to time t
\*   tod    a bare time of day t, "11:00"
\*   stol   ":stol_" followed by text pd.Timestamp reads as time t
\*   junk   text no format parses
Text(kind, fmt, t) == [k |-> "raw", kind |-> kind, fmt |-> fmt, t |-> t]
\* The missing value of a text cell (NaN).
MissingText == "<NaN>"

\* A frame: the column labels and the rows, each row the cells in column order.
Frame(columns, rows) == [columns |-> columns, rows |-> rows]
HasColumn(frame, name) == \E c \in DOMAIN frame.columns : frame.columns[c] = name
ColumnOf(frame, name) == CHOOSE c \in DOMAIN frame.columns : frame.columns[c] = name
\* data[name] = values: written over the column, or added as the last column
SetColumn(frame, name, values) ==
    IF HasColumn(frame, name)
    THEN Frame(frame.columns,
               [i \in DOMAIN frame.rows |->
                   [frame.rows[i] EXCEPT ![ColumnOf(frame, name)] = values[i]]])
    ELSE Frame(Append(frame.columns, name),
               [i \in DOMAIN frame.rows |-> Append(frame.rows[i], values[i])])
\* data.rename(columns={old: new}, inplace=True)
Rename(frame, old, new) ==
    Frame([c \in DOMAIN frame.columns |-> IF frame.columns[c] = old THEN new ELSE frame.columns[c]],
          frame.rows)
\* data.iloc[:, cols]
Take(frame, cols) ==
    Frame([j \in DOMAIN cols |-> frame.columns[cols[j]]],
          [i \in DOMAIN frame.rows |-> [j \in DOMAIN cols |-> frame.rows[i][cols[j]]]])
Constant(frame, v) == [i \in DOMAIN frame.rows |-> v]

\* datetime.strptime(x, time_format) succeeds on every cell of the column. A
\* cell that is parsed already is no string: strptime raises TypeError.
Parses(frame, column, fmt) ==
    \A i \in DOMAIN frame.rows :
        LET x == frame.rows[i][column]
        IN  x.k = "raw" /\ x.kind = "stamp" /\ x.fmt = fmt

\* _process_time: the first format that parses the whole column, else ValueError.
_process_time(frame, column) ==
    IF \E fmt \in DOMAIN TIME_FORMATS : Parses(frame, column, fmt)
    THEN [error |-> "none",
          frame |-> Frame(frame.columns,
                          [i \in DOMAIN frame.rows |->
                              [frame.rows[i] EXCEPT ![column] = Ts(frame.rows[i][column].t)]])]
    ELSE [error |-> "ValueError", frame |-> frame]

\* Line 227: a cell holding ":stol_" becomes the Timestamp of the rest.
Stol(frame) ==
    Frame(frame.columns,
          [i \in DOMAIN frame.rows |->
              [frame.rows[i] EXCEPT ![2] = IF @.k = "raw" /\ @.kind = "stol" THEN Ts(@.t) ELSE @]])

\* _process_end_time on the frame of process_txt: column 1 must hold bare times
\* of day for the date to be put before them.
EndTimes(frame) ==
    IF \E i \in DOMAIN frame.rows : frame.rows[i][2].k # "raw"
    THEN [error |-> "TypeError", frame |-> frame]
    ELSE IF \E i \in DOMAIN frame.rows : frame.rows[i][2].kind # "tod"
    THEN [error |-> "ValueError", frame |-> frame]
    ELSE LET ends == _process_end_time(
                        [i \in DOMAIN frame.rows |->
                            [start |-> frame.rows[i][1].t, end |-> frame.rows[i][2].t]])
         IN  [error |-> "none",
              frame |-> Frame(frame.columns,
                              [i \in DOMAIN frame.rows |->
                                  [frame.rows[i] EXCEPT ![2] = Ts(ends[i].end)]])]

\* _process_data: firstline is pd.read_fwf(filepath).columns[0].
_process_data(frame, filepath, firstline) ==
    LET instrument == IF IsIn("AIA", filepath) THEN "AIA"
                      ELSE IF IsIn("HMI", filepath) THEN "HMI" ELSE "SDO"
        f1 == SetColumn(frame, "Instrument", Constant(frame, instrument))
        f2 == Rename(f1, "Start Date/Time", "Start Time")
        f3 == Rename(f2, "FSN", "Comment")
        f4 == Rename(f3, "Unnamed: 2", "Comment")
        \* data["Comment"].fillna(...) returns a new column, which is dropped
        f5 == IF Last(f4.columns) = "Comment" THEN f4
              ELSE SetColumn(f4, "Comment", Constant(f4, firstline))
        wanted == <<"Start Time", "End Time", "Instrument", "Comment">>
    IN  IF \A j \in DOMAIN wanted : HasColumn(f5, wanted[j])
        THEN [error |-> "none",
              frame |-> Take(f5, [j \in DOMAIN wanted |-> ColumnOf(f5, wanted[j])])]
        ELSE [error |-> "KeyError", frame |-> frame]

\* _reformat_data: the local files, whose rows are (time, text) or (code, time).
_reformat_data(frame, filepath) ==
    IF IsIn("_1", filepath)
    THEN \* column 0 holds "start end", split on white space
         [error |-> "none",
          frame |-> Frame(<<"Start Time", "End Time", "Comment">>,
                          [i \in DOMAIN frame.rows |->
                              <<frame.rows[i][1].start, frame.rows[i][1].end, frame.rows[i][2]>>])]
    ELSE IF IsIn("_2", filepath) \/ IsIn("_3", filepath)
    THEN [error |-> "none", frame |-> Frame(<<"Start Time", "Comment">>, frame.rows)]
    ELSE IF IsIn("_4", filepath)
    THEN IF \E i \in DOMAIN frame.rows : frame.rows[i][1] \notin DOMAIN MAP_4
         THEN [error |-> "KeyError", frame |-> frame]
         ELSE [error |-> "none",
               frame |-> Frame(<<"Start Time", "Comment">>,
                               [i \in DOMAIN frame.rows |->
                                   <<frame.rows[i][2], MAP_4[frame.rows[i][1]]>>])]
    ELSE [error |-> "none", frame |-> frame]

\* The cell of a named column, NaN where the frame has no such column (concat).
CellOf(frame, i, name, missing) ==
    IF HasColumn(frame, name) THEN frame.rows[i][ColumnOf(frame, name)] ELSE missing

\* The rows process_txt adds to the timeline.
Events(frame, source) ==
    [i \in DOMAIN frame.rows |->
        Event(CellOf(frame, i, "Start Time", None).t, CellOf(frame, i, "End Time", None),
              CellOf(frame, i, "Instrument", "None"), source,
              CellOf(frame, i, "Comment", MissingText))]

\* The online branch of process_txt up to the frame it adds (lines 221-242).
\* unparsed is the set of columns _process_time could not parse while they
\* still held text.
OnlineFrame(filepath, file) ==
    LET night == IsIn("sdo_spacecraft_night", filepath)
        t0 == _process_time(file.frame, 1)
        s1 == Stol(t0.frame)
        e1 == IF night THEN [error |-> "none", frame |-> s1] ELSE EndTimes(s1)
        ncols == Len(file.frame.columns)
        two == Frame(<<"Start Time", "End Time">>, Take(e1.frame, <<1, 2>>).rows)
        t1 == _process_time(two, 2)
        held_text == \E i \in DOMAIN two.rows : two.rows[i][2].k = "raw"
        d == IF ncols \in {2, 3} THEN _process_data(e1.frame, filepath, file.firstline)
             ELSE _process_data(t1.frame, filepath, file.firstline)
    IN  IF t0.error # "none" THEN [error |-> t0.error, frame |-> file.frame, unparsed |-> {1}]
        ELSE IF ncols < 2 THEN [error |-> "IndexError", frame |-> file.frame, unparsed |-> {}]
        ELSE IF e1.error # "none" THEN [error |-> e1.error, frame |-> file.frame, unparsed |-> {}]
        ELSE [error |-> d.error, frame |-> d.frame,
              unparsed |-> IF ncols > 3 /\ t1.error # "none" /\ held_text THEN {2} ELSE {}]

\* The local branch (lines 244-248).
LocalFrame(filepath, file) ==
    LET r == _reformat_data(file.frame, filepath)
        t0 == _process_time(r.frame, 1)
        f == t0.frame
    IN  IF r.error # "none" THEN [error |-> r.error, frame |-> file.frame, unparsed |-> {}]
        ELSE IF t0.error # "none" THEN [error |-> t0.error, frame |-> file.frame, unparsed |-> {1}]
        ELSE IF ~HasColumn(f, "Comment") THEN [error |-> "KeyError", frame |-> f, unparsed |-> {}]
        ELSE \* the "AIA" column of line 247 is written over by line 248
             [error |-> "none",
              frame |-> SetColumn(f, "Instrument",
                            [i \in DOMAIN f.rows |->
                                IF IsIn("HMI", f.rows[i][ColumnOf(f, "Comment")]) THEN "HMI"
                                ELSE "None"]),
              unparsed |-> {}]

\* process_txt(filepath, skip_rows, data), file what the reader returned: the
\* frame (its header row as column labels) and the first line of the file.
process_txt(filepath, file, data) ==
    LET r == IF IsIn("http", filepath) THEN OnlineFrame(filepath, file)
             ELSE LocalFrame(filepath, file)
        new_data == Events(r.frame, LastSegment(filepath))
    IN  IF r.error # "none" THEN [error |-> r.error, data |-> data, unparsed |-> r.unparsed]
        \* lines 250-256: the new rows are concatenated three times
        ELSE [error |-> "none", data |-> data \o new_data \o new_data \o new_data,
              unparsed |-> r.unparsed]

\* The files of the model. Online: the spacecraft night file (no header row) and
\* the calibration files the listing page links to; local: the four text blocks.
NightPath == "https://aia.lmsal.com/public/sdo_spacecraft_night.txt"
CalibrationPaths ==
    {"https://aia.lmsal.com/public/AIA_cal.txt", "https://aia.lmsal.com/public/HMI_cal.txt",
     "https://aia.lmsal.com/public/cal.txt"}
LocalPaths == {"./data_1.txt", "./data_2.txt", "./data_3.txt", "./data_4.txt"}

Stamps == {Text("stamp", 1, At(0, 600)), Text("stamp", 4, At(1, 0))}
Junk == Text("junk", 0, 0)
StartTexts == Stamps \cup {Junk}
EndTexts == {Text("tod", 0, 10), Text("tod", 0, 660), Text("stamp", 4, At(1, 10)),
             Text("stol", 0, At(1, 10)), Junk}
CommentTexts == {"note", MissingText}

File(columns, rows, firstline) == [frame |-> Frame(columns, rows), firstline |-> firstline]

\* Frames of n rows of cells drawn column by column.
Rows2(n, c1, c2) == [1..n -> {<<x, y>> : x \in c1, y \in c2}]
Rows3(n, c1, c2, c3) == [1..n -> {<<x, y, z>> : x \in c1, y \in c2, z \in c3}]
Rows4(n, c1, c2, c3, c4) ==
    [1..n -> {<<x, y, z, w>> : x \in c1, y \in c2, z \in c3, w \in c4}]

NightFiles ==
    UNION {{File(<<"0", "1">>, rows, "SDO spacecraft night") :
                rows \in Rows2(n, StartTexts, EndTexts)} : n \in 0..MaxRows}
    \cup UNION {{File(<<"0", "1", "2">>, rows, "SDO spacecraft night") :
                rows \in Rows3(n, StartTexts, EndTexts, {"note"})} : n \in 0..MaxRows}
    \cup UNION {{File(<<"0", "1", "2", "3">>, rows, "SDO spacecraft night") :
                rows \in Rows4(n, StartTexts, EndTexts, {"note"}, {"00:20"})} : n \in 0..MaxRows}

CalibrationFiles ==
    UNION {{File(<<c0, "End Time">>, rows, "Calibration") :
                c0 \in {"Start Time", "Start Date/Time"},
                rows \in Rows2(n, StartTexts, EndTexts)} : n \in 0..MaxRows}
    \cup UNION {{File(<<"Start Time", "End Time", c2>>, rows, "Calibration") :
                c2 \in {"Comment", "FSN", "Unnamed: 2"},
                rows \in Rows3(n, Stamps, EndTexts, CommentTexts)} : n \in 0..MaxRows}
    \cup UNION {{File(<<"Start Time", "End Time", "FSN", "Extra">>, rows, "Calibration") :
                rows \in Rows4(n, Stamps, EndTexts, {"note"}, {"x"})} : n \in 0..MaxRows}

LocalFiles(path) ==
    IF IsIn("_1", path)
    THEN UNION {{File(<<"0", "1">>, rows, "") :
                    rows \in [1..n -> {<<[start |-> x, end |-> y], z>> :
                                          x \in StartTexts, y \in {Text("tod", 0, 660)},
                                          z \in {"HMI test"}}]} : n \in 0..MaxRows}
    ELSE IF IsIn("_4", path)
    THEN UNION {{File(<<"0", "1">>, rows, "") :
                    rows \in Rows2(n, {0, 19, 99}, Stamps)} : n \in 0..MaxRows}
    ELSE UNION {{File(<<"0", "1">>, rows, "") :
                    rows \in Rows2(n, StartTexts, {"HMI test", "AIA door"})} : n \in 0..MaxRows}

InitTxt ==
    /\ pc = "process_txt"
    /\ today = 0
    /\ queue = <<>>
    /\ final_timeline = <<>>
    /\ updated_timeline = <<>>
    /\ args = <<>>
    /\ ret = <<>>
    /\ error = "none"

\* One call of process_txt on an empty frame.
ProcessTxt(filepath, file) ==
    /\ pc = "process_txt"
    /\ LET r == process_txt(filepath, file, final_timeline)
       IN  /\ final_timeline' = r.data
           /\ error' = r.error
           /\ ret' = r.unparsed
    /\ args' = [filepath |-> filepath, file |-> file]
    /\ pc' = "done"
    /\ UNCHANGED <<today, queue, updated_timeline>>

NextTxt ==
    \/ \E file \in NightFiles : ProcessTxt(NightPath, file)
    \/ \E path \in CalibrationPaths, file \in CalibrationFiles : ProcessTxt(path, file)
    \/ \E path \in LocalPaths : \E file \in LocalFiles(path) : ProcessTxt(path, file)

SpecTxt == InitTxt /\ [][NextTxt]_vars

(***************************** drop_duplicates *****************************)
\* pd.Timedelta("5 minute")
Window == 5

\* The window test with < written for <=.
WithinWindowStrict(tl, row) == row.start - Last(tl).start < Window

\* row["Start Time"] - updated_timeline.iloc[-1]["Start Time"] <= pd.Timedelta("5 minute")
WithinWindow(tl, row) == row.start - Last(tl).start <= Window

\* updated_timeline.loc[updated_timeline["Start Time"] == row["Start Time"], col] = v:
\* only the rows whose start EQUALS the incoming row's start are written.
SetEnd(tl, row, v) ==
    Rows([i \in DOMAIN tl |->
        IF tl[i].start = row.start THEN [tl[i] EXCEPT !.end = v] ELSE tl[i]])
SetInstrument(tl, row, v) ==
    Rows([i \in DOMAIN tl |->
        IF tl[i].start = row.start THEN [tl[i] EXCEPT !.instrument = v] ELSE tl[i]])
SetComment(tl, row, v) ==
    Rows([i \in DOMAIN tl |->
        IF tl[i].start = row.start THEN [tl[i] EXCEPT !.comment = v] ELSE tl[i]])
SetSource(tl, row, v) ==
    Rows([i \in DOMAIN tl |->
        IF tl[i].start = row.start THEN [tl[i] EXCEPT !.source = v] ELSE tl[i]])

\* The body of the loop for a row inside the window (lines 384-396).
Combine(tl, row) ==
    LET t1 == SetEnd(tl, row, row.end)
        t2 == IF Last(t1).instrument # row.instrument THEN SetInstrument(t1, row, "SDO") ELSE t1
        t3 == IF ~IsIn(row.comment, Last(t2).comment)
              THEN SetComment(t2, row, Last(t2).comment \o " and " \o row.comment)
              ELSE t2
        t4 == IF ~IsIn(row.source, Last(t3).source)
              THEN SetSource(t3, row, Last(t3).source \o " and " \o row.source)
              ELSE t3
    IN  t4

\* The iteration with a new event put before the timeline, not after it.
MergeRowInFront(tl, row) == IF WithinWindow(tl, row) THEN Combine(tl, row) ELSE <<row>> \o tl

\* One iteration of  for idx, row in data.iterrows()  with idx > 0.
MergeRow(tl, row) == IF WithinWindow(tl, row) THEN Combine(tl, row) ELSE Append(tl, row)

RECURSIVE MergeFrom(_, _, _)
MergeFrom(tl, data, idx) ==
    IF idx > Len(data) THEN tl ELSE MergeFrom(MergeRow(tl, data[idx]), data, idx + 1)

\* The frame is never empty when drop_duplicates reads data[...][0].
drop_duplicates(data) == MergeFrom(<<data[1]>>, data, 2)

\* A frame sorted by start: what main hands to drop_duplicates after sort_values
\* and reset_index.
IsSorted(data) == \A i \in 1..(Len(data) - 1) : data[i].start <= data[i + 1].start

\* Rows of a merged timeline: 10:00, 10:03, 10:06 and 10:40 of day 0.
MergeStarts == {At(0, 600), At(0, 603), At(0, 606), At(0, 640)}
MergeEvents ==
    {Event(s, e, i, src, c) :
        s \in MergeStarts, e \in {Unknown, Ts(At(0, 700))},
        i \in {"AIA", "HMI", "SDO"}, src \in {"x", "y"}, c \in {"A", "B"}}

\* Rows that differ in their start only, for the grouping of longer frames.
ChainStarts == {At(0, 600), At(0, 603), At(0, 605), At(0, 606), At(0, 640)}
ChainEvents ==
    {Event(s, Unknown, i, "x", c) : s \in ChainStarts, i \in {"AIA", "HMI"}, c \in {"A", "B"}}

InitMerge ==
    /\ pc = "drop_duplicates"
    /\ today = 0
    /\ queue = <<>>
    /\ \E n \in 1..MaxLen : final_timeline \in [1..n -> MergeEvents]
    /\ IsSorted(final_timeline)
    /\ updated_timeline = <<>>
    /\ args = <<>>
    /\ ret = <<>>
    /\ error = "none"

InitChain ==
    /\ pc = "drop_duplicates"
    /\ today = 0
    /\ queue = <<>>
    /\ \E n \in 1..MaxChain : final_timeline \in [1..n -> ChainEvents]
    /\ IsSorted(final_timeline)
    /\ updated_timeline = <<>>
    /\ args = <<>>
    /\ ret = <<>>
    /\ error = "none"

DropDuplicates ==
    /\ pc = "drop_duplicates"
    /\ updated_timeline' = drop_duplicates(final_timeline)
    /\ pc' = "done"
    /\ UNCHANGED <<today, queue, final_timeline, args, ret, error>>

SpecMerge == InitMerge /\ [][DropDuplicates]_vars
SpecChain == InitChain /\ [][DropDuplicates]_vars

(***************************** __main__ ************************************)
\* config.DATASETS, in the order the loop of main visits them
DatasetNames ==
    <<"spacecraft_night", "jsocobs_info", "jsocinst_calibrations", "hmi_obs_cov",
      "text_block_1", "text_block_2", "text_block_3", "text_block_4">>

\* os.path.dirname(url)
RECURSIVE Dirname(_)
Dirname(s) ==
    IF Len(s) = 0 \/ SubSeq(s, Len(s), Len(s)) = "/" THEN SubSeq(s, 1, Len(s) - 1)
    ELSE Dirname(SubSeq(s, 1, Len(s) - 1))

\* scrape_url: the links of the listing page that hold "txt", under the page's
\* directory.
RECURSIVE scrape_url(_, _)
scrape_url(url, links) ==
    IF Len(links) = 0 THEN <<>>
    ELSE (IF IsIn("txt", Head(links)) THEN <<Dirname(url) \o "/" \o Head(links)>> ELSE <<>>)
            \o scrape_url(url, Tail(links))

\* The links the listing page may hold (at most one text file, so that
\* sorted(urls) is the list itself).
Listings == {<<"jsocinst_notes.html">>, <<"jsocinst_notes.html", "AIA_cal.txt">>}

\* The urls of a dataset (lines 413-422), sorted; links is what the listing
\* page of a SCRAPE dataset holds. The years of RANGE are 0..MaxYear, and of the
\* months of MONTH_RANGE the model visits the first.
Urls(name, links) ==
    CASE name = "spacecraft_night" -> <<NightPath>>
      [] name = "jsocobs_info" -> [i \in 1..(MaxYear + 1) |-> JsocobsUrl(i - 1)]
      [] name = "jsocinst_calibrations" ->
            scrape_url("https://aia.lmsal.com/public/jsocinst_calibrations.html", links)
      [] name = "hmi_obs_cov" -> [i \in 1..(MaxYear + 1) |-> CovUrl(i - 1)]
      [] name = "text_block_1" -> <<"./data_1.txt">>
      [] name = "text_block_2" -> <<"./data_2.txt">>
      [] name = "text_block_3" -> <<"./data_3.txt">>
      [] name = "text_block_4" -> <<"./data_4.txt">>

\* What the readers return for the urls of a whole run: files and pages of at
\* most one row each, the pages of the first year in more variety than the rest.
MainFiles(url) ==
    IF IsIn("sdo_spacecraft_night", url)
    THEN {File(<<"0", "1", "2", "3">>, rows, "SDO spacecraft night") :
            rows \in {<<<<Text("stamp", 1, At(0, 600)), Text("stamp", 4, At(0, 660)), "note", "1:00">>>>,
                      <<<<Text("stamp", 1, At(0, 600)), Junk, "note", "1:00">>>>,
                      <<<<Junk, Junk, "note", "1:00">>>>}}
    ELSE IF IsIn("http", url)
    THEN {File(<<"Start Time", "End Time", "FSN">>,
               <<<<Text("stamp", 1, At(0, 603)), Text("tod", 0, e), "AIA flat">>>>, "Calibration") :
            e \in {10, 660}}
    ELSE IF IsIn("_1", url)
    THEN {File(<<"0", "1">>, rows, "") :
            rows \in {<<>>, <<<<[start |-> Text("stamp", 1, At(0, 606)),
                                 end |-> Text("tod", 0, 660)], "HMI test">>>>}}
    ELSE IF IsIn("_4", url)
    THEN {File(<<"0", "1">>, <<<<0, Text("stamp", 1, At(0, 660))>>>>, "")}
    ELSE IF IsIn("_2", url)
    THEN {File(<<"0", "1">>, <<<<Text("stamp", 1, At(0, 640)), "AIA door">>>>, "")}
    ELSE {File(<<"0", "1">>, <<<<Text("stamp", 1, At(0, 1095)), "AIA door">>>>, "")}

MainStart(tod) == Cell(Token("mdtime", 11, TRUE, 0, 0, tod, 0), FALSE, FALSE)
MainRows ==
    {[start |-> MainStart(600), end |-> BlankCell(1), generic |-> " ", aia |-> "AIA flat", hmi |-> ""],
     [start |-> MainStart(1430), end |-> Cell(Token("time", 4, FALSE, 0, 0, 10, 0), FALSE, FALSE),
      generic |-> " ", aia |-> "AIA flat", hmi |-> ""],
     [start |-> MainStart(600), end |-> BlankCell(1), generic |-> " ", aia |-> " ", hmi |-> ""]}

MainPages(url) ==
    IF IsIn("hmi/cov2/", url)
    THEN {Page(404, 0, <<>>, <<>>, <<>>)} \cup
         (IF IsIn(YearText(0), url)
          THEN {Page(200, 1, <<>>, <<Cell(Token("full", 16, FALSE, 0, 0, 605, 0), FALSE, FALSE)>>,
                     <<"HMI\nroll">>)}
          ELSE {})
    ELSE {Page(404, 0, <<>>, <<>>, <<>>)} \cup
         {Page(200, 2, <<row>>, <<>>, <<>>) :
            row \in IF IsIn(YearText(0), url) THEN MainRows
                    ELSE {[start |-> MainStart(600), end |-> BlankCell(1),
                           generic |-> " ", aia |-> " ", hmi |-> ""]}}

\* s with e put in at position p + 1
InsertAt(s, p, e) == SubSeq(s, 1, p) \o <<e>> \o SubSeq(s, p + 1, Len(s))

\* The frames a sort by start may give when e joins a sorted frame: rows of
\* equal start come in any order (the default sort kind is not stable).
Inserts(s, e) ==
    {InsertAt(s, p, e) :
        p \in {q \in 0..Len(s) : /\ \A i \in 1..q : s[i].start <= e.start
                                 /\ \A i \in (q + 1)..Len(s) : e.start <= s[i].start}}

\* final_timeline.sort_values("Start Time").reset_index(drop=True), of the first
\* n rows: every outcome of the sort.
RECURSIVE SortValues(_, _)
SortValues(data, n) ==
    IF n = 0 THEN {<<>>}
    ELSE UNION {Inserts(s, data[n]) : s \in SortValues(data, n - 1)}

\* The three fillna of lines 435-437.
FillNa(data) ==
    [i \in DOMAIN data |->
        [data[i] EXCEPT
            !.end = IF @.k \in {"NaT", "None"} THEN Unknown ELSE @,
            !.instrument = IF @ = "None" THEN "SDO" ELSE @,
            !.comment = IF @ = MissingText THEN "No Comment" ELSE @]]

Init ==
    /\ pc = "main"
    /\ today \in {0}
    /\ queue = [dataset |-> 0, urls |-> <<>>]
    /\ final_timeline = <<>>
    /\ updated_timeline = <<>>
    /\ args = <<>>
    /\ ret = <<>>
    /\ error = "none"

\* The head of the loop over DATASETS: the urls of the next dataset.
Scrape ==
    /\ pc = "main"
    /\ queue.urls = <<>>
    /\ queue.dataset < Len(DatasetNames)
    /\ \E links \in Listings :
          queue' = [dataset |-> queue.dataset + 1,
                    urls |-> Urls(DatasetNames[queue.dataset + 1], links)]
    /\ UNCHANGED <<pc, today, final_timeline, updated_timeline, args, ret, error>>

\* One url of the dataset: process_txt or process_html by what the url holds.
\* An exception ends the run.
Parse ==
    /\ pc = "main"
    /\ queue.urls # <<>>
    /\ LET url == Head(queue.urls)
       IN  \/ /\ IsIn("txt", url)
              /\ \E file \in MainFiles(url) :
                    LET r == process_txt(url, file, final_timeline)
                    IN  /\ final_timeline' = r.data
                        /\ error' = r.error
                        /\ pc' = IF r.error = "none" THEN "main" ELSE "failed"
           \/ /\ ~IsIn("txt", url)
              /\ IsIn("html", url)
              /\ \E page \in MainPages(url) :
                    LET r == process_html(url, page, final_timeline, today)
                    IN  /\ final_timeline' = r.data
                        /\ error' = r.error
                        /\ pc' = IF r.error = "none" THEN "main" ELSE "failed"
    /\ queue' = [queue EXCEPT !.urls = Tail(@)]
    /\ UNCHANGED <<today, updated_timeline, args, ret>>

\* Lines 432-438: sort, fill the missing values, deduplicate. drop_duplicates
\* reads row 0 of the frame, which an empty frame has not.
Finish ==
    /\ pc = "main"
    /\ queue.urls = <<>>
    /\ queue.dataset = Len(DatasetNames)
    /\ IF final_timeline = <<>>
       THEN /\ pc' = "failed"
            /\ error' = "KeyError"
            /\ UNCHANGED updated_timeline
       ELSE /\ \E sorted \in SortValues(final_timeline, Len(final_timeline)) :
                  updated_timeline' = drop_duplicates(FillNa(sorted))
            /\ pc' = "done"
            /\ UNCHANGED error
    /\ UNCHANGED <<today, queue, final_timeline, args, ret>>

Next == Scrape \/ Parse \/ Finish

Spec == Init /\ [][Next]_vars

\* C2: for every start and bare end time of day, the end built by
\* _process_end_time has the start's calendar date when the end time of day is
\* at or after the start's, and the start's date plus one day when it is before.
C2_Rollover ==
    pc = "done" =>
        \A i \in DOMAIN args :
            LET s == args[i].start
                e == args[i].end
            IN  /\ e >= TimeOfDay(s) => ret[i].end = At(Date(s), e)
                /\ e < TimeOfDay(s) => ret[i].end = At(Date(s) + 1, e)

\* C7: a time-only token is resolved to the anchor's date and the token's time
\* for every year hint, None included; with no anchor the call fails.
C7_TimeOnly ==
    pc = "done" /\ args.date.kind = "time" =>
        IF args._hack = None THEN IsError(ret)
        ELSE ret = Ts(At(Date(args._hack.t), args.date.tod))
\* The merge of C1: the incoming event's end, SDO when the instruments differ,
\* comment and source extended by " and " unless already a substring.
C1_Merged(acc, e) ==
    Event(acc.start, e.end,
          IF e.instrument # acc.instrument THEN "SDO" ELSE acc.instrument,
          IF IsIn(e.source, acc.source) THEN acc.source ELSE acc.source \o " and " \o e.source,
          IF IsIn(e.comment, acc.comment) THEN acc.comment
          ELSE acc.comment \o " and " \o e.comment)

RECURSIVE C1_Claimed(_, _, _)
C1_Claimed(out, data, idx) ==
    IF idx > Len(data) THEN out
    ELSE IF data[idx].start - Last(out).start <= Window
         THEN C1_Claimed([out EXCEPT ![Len(out)] = C1_Merged(Last(out), data[idx])], data, idx + 1)
         ELSE C1_Claimed(Append(out, data[idx]), data, idx + 1)

\* C1: over a start-sorted frame, every incoming event that starts at most 5
\* minutes after the open accumulator's start is merged into it (end, instrument,
\* comment and source combined), also when it starts strictly later; the others
\* open a new accumulator.
C1_MergeContract ==
    pc = "done" => updated_timeline = C1_Claimed(<<final_timeline[1]>>, final_timeline, 2)

\* C3: after drop_duplicates every input event's comment is a substring of the
\* comment of exactly one output event.
C3_CommentInExactlyOne ==
    pc = "done" =>
        \A i \in DOMAIN final_timeline :
            Cardinality({j \in DOMAIN updated_timeline :
                            IsIn(final_timeline[i].comment, updated_timeline[j].comment)}) = 1

\* Each event starts within the window of its immediate predecessor.
IsChain(data) == \A i \in 1..(Len(data) - 1) : data[i + 1].start - data[i].start <= Window

\* C9 as stated: a chain of events, each within 5 minutes of its predecessor,
\* ends up in one single output event.
C9_ChainMergesIntoOne ==
    pc = "done" /\ IsChain(final_timeline) => Len(updated_timeline) = 1

\* C9 as amended: an event is absorbed only while it starts within 5 minutes of
\* the START OF THE OPEN OUTPUT EVENT (the first event of its group). So every
\* input event starts 0 to 5 minutes after the start of some output event,
\* consecutive output events start more than 5 minutes apart, and a frame whose
\* first and last starts are more than 5 minutes apart gives several output events.
C9_WindowFromGroupStart ==
    pc = "done" =>
        /\ \A i \in DOMAIN final_timeline :
              \E j \in DOMAIN updated_timeline :
                  /\ updated_timeline[j].start <= final_timeline[i].start
                  /\ final_timeline[i].start - updated_timeline[j].start <= Window
        /\ \A j \in 1..(Len(updated_timeline) - 1) :
              updated_timeline[j + 1].start - updated_timeline[j].start > Window
        /\ Last(final_timeline).start - final_timeline[1].start > Window
              => Len(updated_timeline) >= 2

\* A chain of three events whose first and last are more than 5 minutes apart
\* has been split.
C9_Witness ==
    /\ pc = "done"
    /\ Len(final_timeline) >= 3
    /\ IsChain(final_timeline)
    /\ Last(final_timeline).start - final_timeline[1].start > Window
    /\ Len(updated_timeline) = 2
\* C10: the instrument of a row of a row-level table follows the first
\* description cell that holds text: generic gives SDO, else AIA, else HMI, and
\* SDO when the three cells are empty.
C10_InstrumentPrecedence ==
    pc = "done" /\ error = "none" /\ Len(final_timeline) = Len(args.page.rows) =>
        \A i \in DOMAIN args.page.rows :
            LET row == args.page.rows[i]
            IN  final_timeline[i].instrument =
                    IF Strip(row.generic) # "" THEN "SDO"
                    ELSE IF Strip(row.aia) # "" THEN "AIA"
                    ELSE IF Strip(row.hmi) # "" THEN "HMI"
                    ELSE "SDO"
\* C6: when _process_time cannot parse the start or the end column of a text
\* file, process_txt raises, and adds no event (none carrying the unparsed text).
C6_FailurePropagates ==
    pc = "done" /\ ret # {} =>
        /\ error # "none"
        /\ final_timeline = <<>>
\* C4: every event of the final timeline whose end is known has start <= end.
C4_StartBeforeEnd ==
    pc = "done" =>
        \A i \in DOMAIN updated_timeline :
            updated_timeline[i].end.k = "ts" =>
                updated_timeline[i].start <= updated_timeline[i].end.t

\* C5: every event of the final timeline has a non-empty comment.
C5_CommentNonEmpty ==
    pc = "done" => \A i \in DOMAIN updated_timeline : updated_timeline[i].comment # ""

\* C8: the final timeline is ordered by start: no two adjacent output events
\* have start[i] > start[i+1].
C8_OrderedByStart == pc = "done" => IsSorted(updated_timeline)

\* A run whose events were ingested out of order has ended with several events.
C8_Witness ==
    /\ pc = "done"
    /\ ~IsSorted(final_timeline)
    /\ Len(updated_timeline) >= 3
====
